---------------------------- MODULE Spec2Model ----------------------------
(***************************************************************************)
(* Model of the phone recommender: the engine (src/recommender.py), the    *)
(* data preparation step (src/prepare_data.py) and the API process that    *)
(* owns the shared engine handle (src/app.py).                             *)
(*                                                                         *)
(* Text is a sequence of one-character strings.  Floating point values     *)
(* are fixed point: idf weights in hundredths, normalised tf-idf weights,  *)
(* cosine similarities and min-max features in thousandths.                *)
(***************************************************************************)
EXTENDS Integers, Sequences, FiniteSets, TLC

VARIABLES
    top3Data,     \* the per-brand JSON source read by extract_phone_data
    dataFile,     \* DATA_PATH (phones_data.csv): None when absent, else Some(rows)
    modelFile,    \* MODEL_PATH (phone_recommender.pkl): None when absent, else Some(pickle)
    recommender,  \* app.py's global handle / the PhoneRecommender instance
    pc,           \* position of the process: import, main, serving (or engine)
    initEntered,  \* number of times initialize_model has been entered
    request,      \* the arguments of the engine call under study
    response      \* what the last operation returned or raised

vars == <<top3Data, dataFile, modelFile, recommender, pc, initEntered, request, response>>

\* An optional value (a Python reference that may be None, a file that may be
\* absent) is <<>> for None and <<v>> for the value v.
None == <<>>
Some(v) == <<v>>

\* a missing text cell of the table (pandas NaN)
NaN == <<"NaN">>

\* ------------------------------------------------------------------ bounds

MaxItems == 2
MaxTopK == 2
MaxInit == 3
MaxFeatures == 100
DefaultScore == 4

\* -------------------------------------------------------------------- text

Range(f) == {f[i] : i \in DOMAIN f}

UpperChars == <<"A", "B", "C", "D", "E", "F", "G", "H", "I", "J", "K", "L", "M",
                "N", "O", "P", "Q", "R", "S", "T", "U", "V", "W", "X", "Y", "Z">>
LowerChars == <<"a", "b", "c", "d", "e", "f", "g", "h", "i", "j", "k", "l", "m",
                "n", "o", "p", "q", "r", "s", "t", "u", "v", "w", "x", "y", "z">>

UpperSet == Range(UpperChars)
WordCharSet == Range(UpperChars) \cup Range(LowerChars)
LowerMap ==
    [c \in UpperSet |-> LowerChars[CHOOSE i \in 1..Len(UpperChars) : UpperChars[i] = c]]

LowerChar(c) == IF c \in UpperSet THEN LowerMap[c] ELSE c

\* str.lower()
Lower(s) == [i \in 1..Len(s) |-> LowerChar(s[i])]

IsWordChar(c) == c \in WordCharSet

\* Series.str.contains(pat, na=False) on one cell: a regular-expression search.
\* For a pattern of letters only the search finds the pattern as a substring.
Contains(s, pat) ==
    IF s = NaN THEN FALSE
    ELSE \E i \in 0..(Len(s) - Len(pat)) : SubSeq(s, i + 1, i + Len(pat)) = pat

\* Series.fillna('')
FillNa(s) == IF s = NaN THEN <<>> ELSE s

Space == <<" ">>

\* The analyzer of TfidfVectorizer(lowercase=True): lower-case the text, then
\* take every maximal run of two or more word characters as a token.
RECURSIVE Scan(_, _, _)
Scan(s, i, run) ==
    LET flush == IF Len(run) >= 2 THEN <<run>> ELSE <<>>
    IN  IF i > Len(s) THEN flush
        ELSE IF IsWordChar(s[i]) THEN Scan(s, i + 1, Append(run, s[i]))
        ELSE flush \o Scan(s, i + 1, <<>>)

Tokenize(s) == Scan(Lower(s), 1, <<>>)

Count(doc, t) == Cardinality({i \in DOMAIN doc : doc[i] = t})

RECURSIVE SumOver(_, _)
SumOver(S, f) ==
    IF S = {} THEN 0
    ELSE LET x == CHOOSE y \in S : TRUE
         IN  f[x] + SumOver(S \ {x}, f)

RECURSIVE SqrtBetween(_, _, _)
SqrtBetween(n, lo, hi) ==
    IF lo >= hi THEN lo
    ELSE LET mid == (lo + hi + 1) \div 2
         IN  IF mid * mid <= n THEN SqrtBetween(n, mid, hi)
             ELSE SqrtBetween(n, lo, mid - 1)

\* floor of the square root
ISqrt(n) == SqrtBetween(n, 0, IF n < 46340 THEN n ELSE 46340)

\* natural logarithm of 1..8 in hundredths
LnCenti == <<0, 69, 110, 139, 161, 179, 195, 208>>

\* --------------------------------------------------- python and csv helpers

\* truth value of an optional integer: None and 0 are false
TruthyInt(x) == x # None /\ x[1] # 0

\* truth value of an optional string: None and '' are false
TruthyStr(x) == x # None /\ x[1] # <<>>

\* pd.read_csv reads an empty cell as NaN
ReadCell(c) == IF c = <<>> THEN NaN ELSE c

ReadCsv(rows) ==
    [i \in 1..Len(rows) |->
        [rows[i] EXCEPT !.brand = ReadCell(@), !.best_for = ReadCell(@),
                        !.processor = ReadCell(@), !.reason = ReadCell(@)]]

SeqMin(xs) == CHOOSE m \in Range(xs) : \A x \in Range(xs) : m <= x
SeqMax(xs) == CHOOSE m \in Range(xs) : \A x \in Range(xs) : m >= x

\* every ordering of the index set S
Orderings(S) ==
    {p \in [1..Cardinality(S) -> S] : \A i, j \in DOMAIN p : i # j => p[i] # p[j]}

Reverse(s) == [i \in 1..Len(s) |-> s[Len(s) + 1 - i]]

\* s[:k] for k >= 0
Take(s, k) == SubSeq(s, 1, IF k < Len(s) THEN k ELSE Len(s))

\* ------------------------------------------------ PhoneRecommender (engine)

\* PhoneRecommender.__init__
NewRecommender ==
    [df |-> None, tfidf_vectorizer |-> None, tfidf_matrix |-> None,
     feature_matrix |-> None]

\* PhoneRecommender.load_data: FileNotFoundError when the csv is absent
load_data(self, csv) ==
    IF csv = None THEN [outcome |-> "FileNotFoundError", self |-> self]
    ELSE [outcome |-> "return", self |-> [self EXCEPT !.df = Some(ReadCsv(csv[1]))]]

\* the combo_features column of one row
ComboFeatures(row) ==
    FillNa(row.brand) \o Space \o FillNa(row.best_for) \o Space \o
    FillNa(row.processor) \o Space \o FillNa(row.reason)

\* the table with its combo_features column
WithComboFeatures(df) ==
    [i \in DOMAIN df |->
        [c \in DOMAIN df[i] \cup {"combo_features"} |->
            IF c = "combo_features" THEN ComboFeatures(df[i]) ELSE df[i][c]]]

\* the analysed documents of the combo_features column
Documents(df) == [i \in DOMAIN df |-> Tokenize(df[i].combo_features)]

TermFrequency(docs, t) == SumOver(DOMAIN docs, [i \in DOMAIN docs |-> Count(docs[i], t)])

\* the max_features terms of highest corpus frequency
TopTerms(docs, terms) ==
    CHOOSE V \in SUBSET terms :
        /\ Cardinality(V) = MaxFeatures
        /\ \A t \in V, u \in terms \ V : TermFrequency(docs, t) >= TermFrequency(docs, u)

Limit(docs, terms) ==
    IF Cardinality(terms) <= MaxFeatures THEN terms ELSE TopTerms(docs, terms)

\* the vocabulary TfidfVectorizer(max_features=100) keeps
Vocabulary(docs) == Limit(docs, UNION {Range(docs[i]) : i \in DOMAIN docs})

\* smoothed idf, ln((1 + n) / (1 + df)) + 1, in hundredths
Idf(docs, t) ==
    100 + LnCenti[1 + Len(docs)]
        - LnCenti[1 + Cardinality({i \in DOMAIN docs : Count(docs[i], t) > 0})]

FitOver(docs, V) == [fitted |-> TRUE, vocabulary |-> V, idf |-> [t \in V |-> Idf(docs, t)]]

\* TfidfVectorizer.fit: the frozen vocabulary and its idf weights
Fit(docs) == FitOver(docs, Vocabulary(docs))

\* a TfidfVectorizer object on which fit has not completed
Unfitted == [fitted |-> FALSE, vocabulary |-> {}, idf |-> <<>>]

SumSquares(v) == SumOver(DOMAIN v, [t \in DOMAIN v |-> v[t] * v[t]])

\* the l2 normalisation of a weight row, in thousandths
Normalize(w, norm) == [t \in DOMAIN w |-> IF norm = 0 THEN 0 ELSE (w[t] * 1000) \div norm]

Weigh(vec, doc) == [t \in vec.vocabulary |-> Count(doc, t) * vec.idf[t]]

L2(w) == Normalize(w, ISqrt(SumSquares(w)))

\* TfidfVectorizer.transform of one document: tf * idf, then the l2 norm
Transform(vec, text) == L2(Weigh(vec, Tokenize(text)))

Ratio(dot, nq, nd) == IF nq = 0 \/ nd = 0 THEN 0 ELSE (dot * 1000) \div (nq * nd)

\* sklearn's cosine_similarity of two rows
Cosine(q, d) ==
    Ratio(SumOver(DOMAIN q, [t \in DOMAIN q |-> q[t] * d[t]]),
          ISqrt(SumSquares(q)), ISqrt(SumSquares(d)))

NumericFeatures == <<"price", "gaming", "camera", "battery_score", "performance", "rating">>

MinMax(x, lo, hi) == IF hi - lo > 0 THEN ((x - lo) * 1000) \div (hi - lo) ELSE x * 1000

NormalizeColumn(col) == [i \in DOMAIN col |-> MinMax(col[i], SeqMin(col), SeqMax(col))]

\* the min-max normalised numeric columns; a constant column is left as it is
FeatureColumns(df) ==
    [k \in DOMAIN NumericFeatures |->
        NormalizeColumn([i \in DOMAIN df |-> df[i][NumericFeatures[k]]])]

FeatureMatrix(df) ==
    [i \in DOMAIN df |-> [k \in DOMAIN NumericFeatures |-> FeatureColumns(df)[k][i]]]

\* prepare_features from fit_transform on.  The combo_features column and the
\* vectorizer object are assigned before fit_transform can raise.
FitTransform(self, df2, vec) ==
    IF vec.vocabulary = {}
    THEN [outcome |-> "ValueError",
          self |-> [self EXCEPT !.df = Some(df2), !.tfidf_vectorizer = Some(Unfitted)]]
    ELSE [outcome |-> "return",
          self |-> [df |-> Some(df2),
                    tfidf_vectorizer |-> Some(vec),
                    tfidf_matrix |->
                        Some([i \in DOMAIN df2 |-> Transform(vec, df2[i].combo_features)]),
                    feature_matrix |-> Some(FeatureMatrix(df2))]]

PrepareWith(self, df2) == FitTransform(self, df2, Fit(Documents(df2)))

\* PhoneRecommender.prepare_features
prepare_features(self) ==
    IF self.df = None THEN [outcome |-> "TypeError", self |-> self]
    ELSE PrepareWith(self, WithComboFeatures(self.df[1]))

\* the message of recommend_by_text on an engine whose index is not built
NotTrained == "ValueError: Model not trained! Call prepare_features() first"

Overall == <<"o", "v", "e", "r", "a", "l", "l">>

SimilaritiesTo(qv, m) == [i \in DOMAIN m |-> Cosine(qv, m[i])]

\* cosine_similarity(query_vector, self.tfidf_matrix)[0]
Similarities(self, query) ==
    SimilaritiesTo(Transform(self.tfidf_vectorizer[1], query), self.tfidf_matrix[1])

\* variant of ArgSorts: the indices taken to come in descending order of value
ArgSortsDescending(sims) ==
    {p \in Orderings(DOMAIN sims) :
        \A i, j \in DOMAIN p : i < j => sims[p[i]] >= sims[p[j]]}

\* what np.argsort may return: the indices in ascending order of value.  The
\* default sort kind is not stable, so equal values come in any order.
ArgSorts(sims) ==
    {p \in Orderings(DOMAIN sims) :
        \A i, j \in DOMAIN p : i < j => sims[p[i]] <= sims[p[j]]}

TextResult(row, sim) ==
    [model |-> row.model, brand |-> row.brand, price |-> row.price,
     rating |-> row.rating, processor |-> row.processor,
     best_for |-> row.best_for, similarity_score |-> sim]

\* the loop over top_indices: the rows are read from self.df
TextResults(self, sims, kept) ==
    IF kept = <<>> THEN [outcome |-> "return", value |-> <<>>]
    ELSE IF self.df = None THEN [outcome |-> "TypeError", value |-> <<>>]
    ELSE IF \E k \in DOMAIN kept : kept[k] \notin DOMAIN self.df[1]
    THEN [outcome |-> "KeyError", value |-> <<>>]
    ELSE [outcome |-> "return",
          value |-> [k \in DOMAIN kept |-> TextResult(self.df[1][kept[k]], sims[kept[k]])]]

\* variant of TopPositive: the filter written "similarities[idx] >= 0"
TopNonNegative(sims, top_k, order) ==
    SelectSeq(Take(Reverse(order), top_k), LAMBDA idx : sims[idx] >= 0)

\* np.argsort(similarities)[::-1][:top_k], then only the similarities above 0
TopPositive(sims, top_k, order) ==
    SelectSeq(Take(Reverse(order), top_k), LAMBDA idx : sims[idx] > 0)

RankText(self, sims, top_k, order) == TextResults(self, sims, TopPositive(sims, top_k, order))

\* variant of recommend_by_text: an engine without index answers the empty list
recommend_by_text_unguarded(self, query, top_k, order) ==
    IF self.tfidf_matrix = None THEN [outcome |-> "return", value |-> <<>>]
    ELSE RankText(self, Similarities(self, query), top_k, order)

\* PhoneRecommender.recommend_by_text; order is the result of np.argsort
recommend_by_text(self, query, top_k, order) ==
    IF self.tfidf_matrix = None THEN [outcome |-> NotTrained, value |-> <<>>]
    ELSE RankText(self, Similarities(self, query), top_k, order)

\* the budget filter of recommend_by_specs
BudgetKeeps(row, budget) == TruthyInt(budget) => row.price <= budget[1]

\* the use_case filter of recommend_by_specs
UseCaseKeeps(row, use_case) ==
    (TruthyStr(use_case) /\ Lower(use_case[1]) # Overall)
        => Contains(Lower(row.best_for), use_case[1])

\* the rows recommend_by_specs keeps after its two filters
Survivors(df, budget, use_case) ==
    {i \in DOMAIN df : BudgetKeeps(df[i], budget) /\ UseCaseKeeps(df[i], use_case)}

\* variant of RatingSorts: sort_values('rating') with the default ascending=True
RatingSortsAscending(df, S) ==
    {p \in Orderings(S) :
        \A i, j \in DOMAIN p : i < j => df[p[i]].rating <= df[p[j]].rating}

\* what sort_values('rating', ascending=False) may return for the kept rows:
\* rating descending, equal ratings in any order (the sort kind is not stable)
RatingSorts(df, S) ==
    {p \in Orderings(S) :
        \A i, j \in DOMAIN p : i < j => df[p[i]].rating >= df[p[j]].rating}

SpecsResult(row) ==
    [model |-> row.model, brand |-> row.brand, price |-> row.price,
     rating |-> row.rating, processor |-> row.processor,
     best_for |-> row.best_for, reason |-> row.reason]

SpecsResults(df, head) ==
    [outcome |-> "return", value |-> [k \in DOMAIN head |-> SpecsResult(df[head[k]])]]

\* PhoneRecommender.recommend_by_specs; order is the result of sort_values
recommend_by_specs(self, budget, use_case, top_k, order) ==
    IF self.df = None THEN [outcome |-> "AttributeError", value |-> <<>>]
    ELSE IF Survivors(self.df[1], budget, use_case) = {}
    THEN [outcome |-> "return", value |-> <<>>]
    ELSE SpecsResults(self.df[1], Take(order, top_k))

\* joblib.dump of an instance: the items of its __dict__
Pickle(obj) ==
    [ok |-> TRUE,
     items |-> <<<<"df", obj.df>>, <<"tfidf_vectorizer", obj.tfidf_vectorizer>>,
                 <<"tfidf_matrix", obj.tfidf_matrix>>,
                 <<"feature_matrix", obj.feature_matrix>>>>]

\* a file that joblib.load cannot read
CorruptPickle == [ok |-> FALSE, items |-> <<>>]

Attribute(items, name) ==
    items[CHOOSE i \in DOMAIN items : items[i][1] = name][2]

\* variant of Unpickle: the sparse matrix is not restored
UnpickleWithoutIndex(p) ==
    [df |-> Attribute(p.items, "df"),
     tfidf_vectorizer |-> Attribute(p.items, "tfidf_vectorizer"),
     tfidf_matrix |-> None,
     feature_matrix |-> Attribute(p.items, "feature_matrix")]

\* joblib.load: an instance with the pickled attributes
Unpickle(p) ==
    [df |-> Attribute(p.items, "df"),
     tfidf_vectorizer |-> Attribute(p.items, "tfidf_vectorizer"),
     tfidf_matrix |-> Attribute(p.items, "tfidf_matrix"),
     feature_matrix |-> Attribute(p.items, "feature_matrix")]

\* PhoneRecommender.save_model: the new content of the model file
save_model(self) == Some(Pickle(self))

\* PhoneRecommender.load_model: returns the loaded instance, self is not used
load_model(self, file) ==
    IF file = None THEN [outcome |-> "FileNotFoundError", value |-> None]
    ELSE IF ~file[1].ok THEN [outcome |-> "UnpicklingError", value |-> None]
    ELSE [outcome |-> "return", value |-> Some(Unpickle(file[1]))]

\* the orders np.argsort may give for a text query (one dummy when not ready)
TextOrders(self, query) ==
    IF self.tfidf_matrix = None THEN {<<>>} ELSE ArgSorts(Similarities(self, query))

\* the orders sort_values may give for a specs query
SpecsOrders(self, budget, use_case) ==
    IF self.df = None THEN {<<>>}
    ELSE RatingSorts(self.df[1], Survivors(self.df[1], budget, use_case))

\* ------------------------------------------------------- inputs (small sets)

Gam == <<"g", "a", "m">>
GamCap == <<"G", "a", "m">>
Cam == <<"c", "a", "m">>
Sam == <<"s", "a", "m">>
Zzz == <<"z", "z", "z">>
Sep == <<",", " ">>
OverallCap == <<"O", "v", "e", "r", "a", "l", "l">>

\* one row of phones_data.csv; the four scores hold their default
Row(brand, price, rating, best_for, reason) ==
    [model |-> 0, brand |-> brand, price |-> price, rating |-> rating,
     processor |-> <<>>, best_for |-> best_for, reason |-> reason,
     gaming |-> DefaultScore, camera |-> DefaultScore,
     battery_score |-> DefaultScore, performance |-> DefaultScore]

\* rows that differ in price, rating and tags (a tag cell may be empty)
Pool ==
    {Row(Sam, 10, 4, Gam, <<>>), Row(Sam, 20, 5, Gam, <<>>),
     Row(Sam, 20, 4, GamCap \o Sep \o Cam, <<>>), Row(Sam, 10, 5, <<>>, <<>>)}

\* the tables of at most MaxItems rows over a pool; the model name of a row is
\* its position, so names are unique within a table
Catalogs(pool) ==
    UNION {{[i \in 1..n |-> [rows[i] EXCEPT !.model = i]] : rows \in [1..n -> pool]} :
              n \in 0..MaxItems}

TextQueries == {Gam, Cam, Zzz, GamCap \o Space \o Cam}
UseCases == {None, Some(Gam), Some(GamCap), Some(Cam), Some(Overall), Some(OverallCap)}
Budgets == {None, Some(0), Some(10)}
TopKs == 1..MaxTopK

TextRequests ==
    {[kind |-> "text", query |-> q, budget |-> None, use_case |-> None, top_k |-> k] :
        q \in TextQueries, k \in TopKs}
SpecsRequests ==
    {[kind |-> "specs", query |-> <<>>, budget |-> b, use_case |-> u, top_k |-> k] :
        b \in Budgets, u \in UseCases, k \in TopKs}
NoRequest == [kind |-> "none", query |-> <<>>, budget |-> None, use_case |-> None, top_k |-> 0]

\* ------------------------------------------------- the engine as a machine

EngineInit(requests) ==
    /\ top3Data = <<>>
    /\ dataFile \in {Some(c) : c \in Catalogs(Pool)}
    /\ modelFile = None
    /\ recommender = Some(NewRecommender)
    /\ pc = "engine"
    /\ initEntered = 0
    /\ request \in requests
    /\ response = [op |-> "__init__", outcome |-> "return"]

LoadData ==
    /\ pc = "engine"
    /\ LET r == load_data(recommender[1], dataFile)
       IN  /\ recommender' = Some(r.self)
           /\ response' = [op |-> "load_data", outcome |-> r.outcome]
    /\ UNCHANGED <<top3Data, dataFile, modelFile, pc, initEntered, request>>

PrepareFeatures ==
    /\ pc = "engine"
    /\ LET r == prepare_features(recommender[1])
       IN  /\ recommender' = Some(r.self)
           /\ response' = [op |-> "prepare_features", outcome |-> r.outcome]
    /\ UNCHANGED <<top3Data, dataFile, modelFile, pc, initEntered, request>>

RecommendByText ==
    /\ pc = "engine"
    /\ request.kind = "text"
    /\ \E order \in TextOrders(recommender[1], request.query) :
         LET r == recommend_by_text(recommender[1], request.query, request.top_k, order)
         IN  response' = [op |-> "recommend_by_text", outcome |-> r.outcome,
                          value |-> r.value]
    /\ UNCHANGED <<top3Data, dataFile, modelFile, recommender, pc, initEntered, request>>

RecommendBySpecs ==
    /\ pc = "engine"
    /\ request.kind = "specs"
    /\ \E order \in SpecsOrders(recommender[1], request.budget, request.use_case) :
         LET r == recommend_by_specs(recommender[1], request.budget, request.use_case,
                                     request.top_k, order)
         IN  response' = [op |-> "recommend_by_specs", outcome |-> r.outcome,
                          value |-> r.value]
    /\ UNCHANGED <<top3Data, dataFile, modelFile, recommender, pc, initEntered, request>>

SaveModel ==
    /\ pc = "engine"
    /\ modelFile' = save_model(recommender[1])
    /\ response' = [op |-> "save_model", outcome |-> "return"]
    /\ UNCHANGED <<top3Data, dataFile, recommender, pc, initEntered, request>>

LoadModel ==
    /\ pc = "engine"
    /\ LET r == load_model(recommender[1], modelFile)
       IN  response' = [op |-> "load_model", outcome |-> r.outcome, value |-> r.value]
    /\ UNCHANGED <<top3Data, dataFile, modelFile, recommender, pc, initEntered, request>>

EngineInitQueries == EngineInit(TextRequests \cup SpecsRequests)

EngineNext ==
    \/ LoadData
    \/ PrepareFeatures
    \/ RecommendByText
    \/ RecommendBySpecs

SpecEngine == EngineInitQueries /\ [][EngineNext]_vars

PersistInit == EngineInit({NoRequest})

PersistNext ==
    \/ LoadData
    \/ PrepareFeatures
    \/ SaveModel
    \/ LoadModel

SpecPersist == PersistInit /\ [][PersistNext]_vars

\* ------------------------------------------------ prepare_data.py and train

\* the tags of a phone joined with ", "
RECURSIVE JoinTags(_)
JoinTags(tags) ==
    IF tags = <<>> THEN <<>>
    ELSE IF Len(tags) = 1 THEN tags[1]
    ELSE JoinTags(SubSeq(tags, 1, Len(tags) - 1)) \o Sep \o tags[Len(tags)]

\* the record extract_phone_data builds for one phone; a missing rating or
\* score takes its default
PhoneRecord(brand_data, phone) ==
    [model |-> phone.model, brand |-> brand_data.brand, price |-> phone.price,
     rating |-> IF phone.rating = None THEN DefaultScore ELSE phone.rating[1],
     processor |-> phone.processor, best_for |-> JoinTags(phone.best_for),
     reason |-> phone.reason,
     gaming |-> DefaultScore, camera |-> DefaultScore,
     battery_score |-> DefaultScore, performance |-> DefaultScore]

\* extract_phone_data: one record per phone of every brand file that is there
RECURSIVE extract_phone_data(_)
extract_phone_data(files) ==
    IF files = <<>> THEN <<>>
    ELSE [i \in DOMAIN files[1].phones |-> PhoneRecord(files[1], files[1].phones[i])]
         \o extract_phone_data(Tail(files))

WriteRows(phones, csv) == IF phones = <<>> THEN csv ELSE Some(phones)

\* save_data_csv: the content of DATA_PATH afterwards; nothing is written
\* when no phone was extracted
save_data_csv(files, csv) == WriteRows(extract_phone_data(files), csv)

\* "if not DATA_PATH.exists(): save_data_csv()"
EnsureData(files, csv) == IF csv = None THEN save_data_csv(files, csv) ELSE csv

\* train_model after prepare_features: an exception propagates, else the
\* engine is saved and returned
Trained(p, model_file) ==
    IF p.outcome # "return"
    THEN [outcome |-> p.outcome, value |-> None, modelFile |-> model_file]
    ELSE [outcome |-> "return", value |-> Some(p.self), modelFile |-> save_model(p.self)]

\* train_model: None without a csv, else a fitted and saved engine
train_model(csv, model_file) ==
    IF csv = None THEN [outcome |-> "return", value |-> None, modelFile |-> model_file]
    ELSE Trained(prepare_features(load_data(NewRecommender, csv).self), model_file)

\* ------------------------------------------------------------------ app.py

Ready(g) == g # None /\ g[1].df # None /\ g[1].tfidf_matrix # None

\* how initialize_model ends: outcome is "return" (the handle is then its
\* return value) or the exception raised; recommender is the global handle
\* and modelFile, dataFile the two files as it leaves them
Ended(outcome, g, model_file, csv) ==
    [outcome |-> outcome, recommender |-> g, modelFile |-> model_file, dataFile |-> csv]

\* initialize_model, lines 69-72: p is what prepare_features did
InitPrepared(p, model_file, csv) ==
    IF p.outcome # "return" THEN Ended(p.outcome, Some(p.self), model_file, csv)
    ELSE Ended("return", Some(p.self), save_model(p.self), csv)

\* initialize_model, lines 67-72
InitFeatures(self, model_file, csv) ==
    IF self.tfidf_matrix = None THEN InitPrepared(prepare_features(self), model_file, csv)
    ELSE Ended("return", Some(self), model_file, csv)

\* initialize_model, lines 65-72: l is what load_data did
InitLoaded(l, model_file, csv) ==
    IF l.outcome # "return" THEN Ended(l.outcome, Some(l.self), model_file, csv)
    ELSE InitFeatures(l.self, model_file, csv)

InitData(self, model_file, csv) == InitLoaded(load_data(self, csv), model_file, csv)

\* initialize_model, lines 57-72: g is the handle after load-or-train
InitFinish(g, model_file, csv, files) ==
    IF g = None THEN Ended("return", None, model_file, csv)
    ELSE IF g[1].df = None THEN InitData(g[1], model_file, EnsureData(files, csv))
    ELSE InitFeatures(g[1], model_file, csv)

\* initialize_model, lines 55-72: t is what train_model did; when it raised
\* the handle keeps its old value g
InitTrained(g, t, csv, files) ==
    IF t.outcome # "return" THEN Ended(t.outcome, g, t.modelFile, csv)
    ELSE InitFinish(t.value, t.modelFile, csv, files)

InitTrain(g, model_file, csv, files) ==
    InitTrained(g, train_model(csv, model_file), csv, files)

\* initialize_model, lines 45-46 and 57-72: l is what load_model did; when it
\* raised the handle is the blank instance of line 45
InitUnpickled(l, model_file, csv, files) ==
    IF l.outcome # "return" THEN Ended(l.outcome, Some(NewRecommender), model_file, csv)
    ELSE InitFinish(l.value, model_file, csv, files)

\* initialize_model
initialize_model(g, model_file, csv, files) ==
    IF model_file # None
    THEN InitUnpickled(load_model(NewRecommender, model_file), model_file, csv, files)
    ELSE InitTrain(g, model_file, EnsureData(files, csv), files)

\* variant of get_recommender: the test of tfidf_matrix inverted
get_recommender_inverted(g, model_file, csv, files) ==
    IF g = None \/ g[1].tfidf_matrix # None
    THEN [entered |-> 1] @@ initialize_model(g, model_file, csv, files)
    ELSE [entered |-> 0] @@ Ended("return", g, model_file, csv)

\* variant of get_recommender: every call initializes again
get_recommender_eager(g, model_file, csv, files) ==
    [entered |-> 1] @@ initialize_model(g, model_file, csv, files)

\* variant of get_recommender: only a missing handle is initialized
get_recommender_lazy(g, model_file, csv, files) ==
    IF g = None
    THEN [entered |-> 1] @@ initialize_model(g, model_file, csv, files)
    ELSE [entered |-> 0] @@ Ended("return", g, model_file, csv)

\* get_recommender: entered tells whether initialize_model was called
get_recommender(g, model_file, csv, files) ==
    IF g = None \/ g[1].tfidf_matrix = None
    THEN [entered |-> 1] @@ initialize_model(g, model_file, csv, files)
    ELSE [entered |-> 0] @@ Ended("return", g, model_file, csv)

\* the engine call a request asks for, and the orders its sort may give
Orders(self, req) ==
    IF req.kind = "text" THEN TextOrders(self, req.query)
    ELSE SpecsOrders(self, req.budget, req.use_case)

EngineCall(self, req, order) ==
    IF req.kind = "text" THEN recommend_by_text(self, req.query, req.top_k, order)
    ELSE recommend_by_specs(self, req.budget, req.use_case, req.top_k, order)

\* Series.unique(): the values in order of first appearance
RECURSIVE Unique(_)
Unique(xs) ==
    IF xs = <<>> THEN <<>>
    ELSE IF \E i \in 1..(Len(xs) - 1) : xs[i] = xs[Len(xs)]
    THEN Unique(SubSeq(xs, 1, Len(xs) - 1))
    ELSE Append(Unique(SubSeq(xs, 1, Len(xs) - 1)), xs[Len(xs)])

Column(df, c) == [i \in DOMAIN df |-> df[i][c]]

\* the stats_data of stats()
StatsData(df) ==
    [total_phones |-> Len(df),
     brands |-> Unique(Column(df, "brand")),
     price_min |-> SeqMin(Column(df, "price")),
     price_max |-> SeqMax(Column(df, "price")),
     price_avg |-> SumOver(DOMAIN df, Column(df, "price")) \div Len(df),
     use_cases |-> Take(Unique(Column(df, "best_for")), 10)]

\* the body of stats(); min() of an empty column is NaN and int(NaN) raises
StatsOf(self) ==
    IF self.df = None THEN [outcome |-> "TypeError", value |-> <<>>]
    ELSE IF self.df[1] = <<>> THEN [outcome |-> "ValueError", value |-> <<>>]
    ELSE [outcome |-> "return", value |-> <<StatsData(self.df[1])>>]

\* what a handler answers once get_recommender has run: 500 when it or the
\* engine call raised, 503 without an engine, 400 for a request that names
\* nothing, else 200 with the result.  got is what get_recommender returned.
Answer(op, gr, bad_request, call) ==
    [op |-> op,
     got |-> IF gr.outcome = "return" THEN gr.recommender ELSE None,
     status |-> IF gr.outcome # "return" THEN 500
                ELSE IF gr.recommender = None THEN 503
                ELSE IF bad_request THEN 400
                ELSE IF call.outcome # "return" THEN 500
                ELSE 200,
     body |-> IF gr.outcome = "return" /\ gr.recommender # None /\ ~bad_request
                 /\ call.outcome = "return"
              THEN call.value ELSE <<>>]

NoCall == [outcome |-> "return", value |-> <<>>]

\* a 400 answered before get_recommender is called
Rejected(op) == [op |-> op, got |-> None, status |-> 400, body |-> <<>>]

\* "query or use_case or budget"
Names(req) == req.query # <<>> \/ TruthyStr(req.use_case) \/ TruthyInt(req.budget)

\* a handler's call of get_recommender: the handle, the files and the count
\* of initialize_model calls afterwards
Got(gr) ==
    /\ initEntered + gr.entered <= MaxInit
    /\ recommender' = gr.recommender
    /\ modelFile' = gr.modelFile
    /\ dataFile' = gr.dataFile
    /\ initEntered' = initEntered + gr.entered

\* the engine call of a handler, when it comes to it
Served(op, gr, req, bad_request) ==
    IF gr.outcome = "return" /\ gr.recommender # None /\ ~bad_request
    THEN \E order \in Orders(gr.recommender[1], req) :
            response' = Answer(op, gr, bad_request, EngineCall(gr.recommender[1], req, order))
    ELSE response' = Answer(op, gr, bad_request, NoCall)

StatsCall(gr) ==
    IF gr.outcome = "return" /\ gr.recommender # None THEN StatsOf(gr.recommender[1])
    ELSE NoCall

RecommendBodies ==
    {NoRequest,
     [kind |-> "text", query |-> Gam, budget |-> None, use_case |-> None, top_k |-> 1],
     [kind |-> "specs", query |-> <<>>, budget |-> None, use_case |-> Some(Gam), top_k |-> 2],
     [kind |-> "specs", query |-> <<>>, budget |-> Some(0), use_case |-> None, top_k |-> 2]}

SearchArgs ==
    {[kind |-> "text", query |-> q, budget |-> None, use_case |-> None, top_k |-> 1] :
        q \in {<<>>, Gam}}

FilterArgs ==
    {[kind |-> "specs", query |-> <<>>, budget |-> b, use_case |-> None, top_k |-> 2] :
        b \in {None, Some(10)}}

\* what ImportInit and MainInit record of their initialize_model call
Initialized(op, r) ==
    [op |-> op, outcome |-> r.outcome,
     got |-> IF r.outcome = "return" THEN r.recommender ELSE None]

\* module import: initialize_model inside try/except; then the script entry
\* point runs, or a server that imported the module starts serving
ImportInit ==
    /\ pc = "import"
    /\ \E r \in {initialize_model(recommender, modelFile, dataFile, top3Data)} :
           /\ recommender' = r.recommender
           /\ modelFile' = r.modelFile
           /\ dataFile' = r.dataFile
           /\ response' = Initialized("import", r)
    /\ initEntered' = initEntered + 1
    /\ pc' \in {"main", "serving"}
    /\ UNCHANGED <<top3Data, request>>

\* the script entry point: initialize_model again, not guarded; an exception
\* ends the process
MainInit ==
    /\ pc = "main"
    /\ \E r \in {initialize_model(recommender, modelFile, dataFile, top3Data)} :
           /\ recommender' = r.recommender
           /\ modelFile' = r.modelFile
           /\ dataFile' = r.dataFile
           /\ response' = Initialized("main", r)
           /\ pc' = IF r.outcome = "return" THEN "serving" ELSE "crashed"
    /\ initEntered' = initEntered + 1
    /\ UNCHANGED <<top3Data, request>>

\* POST /api/recommend: get_recommender runs before the request is validated
Recommend ==
    /\ pc = "serving"
    /\ \E data \in RecommendBodies :
         IF data.kind = "none"
         THEN /\ response' = Rejected("recommend")
              /\ UNCHANGED <<recommender, modelFile, dataFile, initEntered>>
         ELSE \E gr \in {get_recommender(recommender, modelFile, dataFile, top3Data)} :
                  Got(gr) /\ Served("recommend", gr, data, ~Names(data))
    /\ UNCHANGED <<top3Data, pc, request>>

\* GET /api/search: an empty q is rejected before get_recommender
Search ==
    /\ pc = "serving"
    /\ \E args \in SearchArgs :
         IF args.query = <<>>
         THEN /\ response' = Rejected("search")
              /\ UNCHANGED <<recommender, modelFile, dataFile, initEntered>>
         ELSE \E gr \in {get_recommender(recommender, modelFile, dataFile, top3Data)} :
                  Got(gr) /\ Served("search", gr, args, FALSE)
    /\ UNCHANGED <<top3Data, pc, request>>

\* GET /api/filter: no budget and no use_case is rejected before get_recommender
FilterPhones ==
    /\ pc = "serving"
    /\ \E args \in FilterArgs :
         IF ~TruthyInt(args.budget) /\ ~TruthyStr(args.use_case)
         THEN /\ response' = Rejected("filter")
              /\ UNCHANGED <<recommender, modelFile, dataFile, initEntered>>
         ELSE \E gr \in {get_recommender(recommender, modelFile, dataFile, top3Data)} :
                  Got(gr) /\ Served("filter", gr, args, FALSE)
    /\ UNCHANGED <<top3Data, pc, request>>

\* GET /api/stats
Stats ==
    /\ pc = "serving"
    /\ \E gr \in {get_recommender(recommender, modelFile, dataFile, top3Data)} :
           Got(gr) /\ response' = Answer("stats", gr, FALSE, StatsCall(gr))
    /\ UNCHANGED <<top3Data, pc, request>>

\* GET /health
Health ==
    /\ pc = "serving"
    /\ response' = [op |-> "health", got |-> None, status |-> 200, body |-> <<>>]
    /\ UNCHANGED <<top3Data, dataFile, modelFile, recommender, pc, initEntered, request>>

\* what may be on disk when the process starts
AppCatalog ==
    <<[Row(Sam, 10, 4, Gam, <<>>) EXCEPT !.model = 1],
      [Row(Sam, 20, 5, GamCap \o Sep \o Cam, <<>>) EXCEPT !.model = 2]>>

BrandFile ==
    [brand |-> Sam,
     phones |-> <<[model |-> 1, price |-> 10, processor |-> <<>>,
                   best_for |-> <<Gam, Cam>>, reason |-> <<>>, rating |-> None]>>]

LoadedEngine == load_data(NewRecommender, Some(AppCatalog)).self
FittedEngine == prepare_features(LoadedEngine).self

\* the instances a model file left by an earlier run may hold
SnapshotEngines ==
    {NewRecommender, LoadedEngine, FittedEngine, [FittedEngine EXCEPT !.df = None]}

Init ==
    /\ top3Data \in {<<>>, <<BrandFile>>}
    /\ dataFile \in {None, Some(<<>>), Some(AppCatalog)}
    /\ modelFile \in {None, Some(CorruptPickle)} \cup {Some(Pickle(e)) : e \in SnapshotEngines}
    /\ recommender = None
    /\ pc = "import"
    /\ initEntered = 0
    /\ request = NoRequest
    /\ response = [op |-> "start", got |-> None, status |-> 0, body |-> <<>>]

Next ==
    \/ ImportInit
    \/ MainInit
    \/ Recommend
    \/ Search
    \/ FilterPhones
    \/ Stats
    \/ Health

Spec == Init /\ [][Next]_vars

\* -------------------------------------------------------------- properties

TextReturned == response.op = "recommend_by_text" /\ response.outcome = "return"
SpecsReturned == response.op = "recommend_by_specs" /\ response.outcome = "return"

\* the similarities of the query under study on the fitted engine
Sims == Similarities(recommender[1], request.query)

\* the catalog positions of the returned items (a model name is its position)
Returned == {response.value[k].model : k \in DOMAIN response.value}

Min(a, b) == IF a < b THEN a ELSE b

\* C1: for every catalog and every budget B >= 0, B = 0 included,
\* recommend_by_specs(budget=B) never returns an item whose price is above B.
C1_BudgetBound ==
    (SpecsReturned /\ request.budget # None)
        => \A k \in DOMAIN response.value : response.value[k].price <= request.budget[1]

\* the candidates C2 describes: the items that pass the budget filter and
\* whose best_for contains U when both are compared without regard to case
ClaimedCandidates(df, budget, use_case) ==
    {i \in DOMAIN df :
        /\ BudgetKeeps(df[i], budget)
        /\ Lower(use_case) # Overall => Contains(Lower(df[i].best_for), Lower(use_case))}

\* C2: with a use_case U that is not "overall" in any letter case, the
\* candidates of recommend_by_specs are exactly the items that pass the budget
\* filter and whose best_for contains U as a case-insensitive substring,
\* whatever the letter case of U; a missing best_for excludes the item without
\* raising; with U "overall" in any letter case no use_case filter applies.
\* The result is then drawn from these candidates, min(top_k, their number) long.
C2_UseCaseFilter ==
    (response.op = "recommend_by_specs" /\ recommender[1].df # None
        /\ TruthyStr(request.use_case))
        => /\ response.outcome = "return"
           /\ Returned \subseteq
                ClaimedCandidates(recommender[1].df[1], request.budget, request.use_case[1])
           /\ Len(response.value) =
                Min(request.top_k,
                    Cardinality(ClaimedCandidates(recommender[1].df[1], request.budget,
                                                  request.use_case[1])))

\* C3: the list recommend_by_text returns has at most top_k entries in
\* non-increasing order of similarity_score, and the list recommend_by_specs
\* returns has at most top_k entries in non-increasing order of rating.
C3_BoundedAndSorted ==
    /\ TextReturned =>
          /\ Len(response.value) <= request.top_k
          /\ \A i, j \in DOMAIN response.value :
                i < j => response.value[i].similarity_score >= response.value[j].similarity_score
    /\ SpecsReturned =>
          /\ Len(response.value) <= request.top_k
          /\ \A i, j \in DOMAIN response.value :
                i < j => response.value[i].rating >= response.value[j].rating

\* a text query cut at top_k: more items match than are returned
C3_Witness ==
    /\ TextReturned
    /\ request.top_k = 1
    /\ Len(response.value) = 1
    /\ Cardinality({i \in DOMAIN Sims : Sims[i] > 0}) = 2

\* C4 as stated: recommend_by_text ranks by similarity descending and breaks
\* ties by catalog order: of two returned items with equal similarity the
\* earlier catalog item comes first, and when a tie straddles the top_k cut
\* the earlier catalog item is the one kept.
C4_TiesInCatalogOrder ==
    TextReturned =>
        /\ \A i, j \in DOMAIN response.value :
              i < j =>
                 \/ response.value[i].similarity_score > response.value[j].similarity_score
                 \/ /\ response.value[i].similarity_score = response.value[j].similarity_score
                    /\ response.value[i].model < response.value[j].model
        /\ \A j \in DOMAIN response.value, m \in DOMAIN Sims :
              (m \notin Returned /\ Sims[m] = response.value[j].similarity_score)
                 => response.value[j].model < m

\* C4 amended: recommend_by_text ranks by similarity descending: every
\* returned item carries its own similarity, an item of higher similarity
\* always comes before one of lower similarity, and an item is left out by the
\* top_k cut only when top_k items of at least its similarity are returned;
\* the order among items of equal similarity is not fixed.
C4_RankedBySimilarity ==
    TextReturned =>
        /\ \A j \in DOMAIN response.value :
              response.value[j].similarity_score = Sims[response.value[j].model]
        /\ \A i, j \in DOMAIN response.value :
              response.value[i].similarity_score > response.value[j].similarity_score => i < j
        /\ \A m \in DOMAIN Sims :
              (m \notin Returned /\ Sims[m] > 0)
                 => /\ Len(response.value) = request.top_k
                    /\ \A j \in DOMAIN response.value :
                          response.value[j].similarity_score >= Sims[m]

\* a tie that straddles the cut, and the later catalog item is the one kept
C4_Witness ==
    /\ TextReturned
    /\ request.top_k = 1
    /\ Len(recommender[1].df[1]) = 2
    /\ Sims[1] = Sims[2]
    /\ Sims[1] > 0
    /\ Returned = {2}

C6_AtMostOnce == initEntered <= 1

\* C6 amended: initialize_model is entered once by the module import, once
\* more by the script entry point, and by a request only through
\* get_recommender when the global handle is None or has no tfidf_matrix (a
\* stats request then always enters it); a request that finds a handle with
\* its tfidf_matrix set never enters it.
C6_EnteredWhenNeeded ==
    [][/\ pc \in {"import", "main"} => initEntered' = initEntered + 1
       /\ pc = "serving" =>
             /\ initEntered' \in {initEntered, initEntered + 1}
             /\ initEntered' # initEntered
                   => (recommender = None \/ recommender[1].tfidf_matrix = None)
             /\ (response'.op = "stats"
                   /\ (recommender = None \/ recommender[1].tfidf_matrix = None))
                   => initEntered' = initEntered + 1]_vars

\* a request entered initialize_model after import and entry point had
C6_Witness ==
    /\ pc = "serving"
    /\ initEntered = 3
    /\ response.op \in {"recommend", "search", "filter", "stats"}

\* C7: once the handle holds a ready engine (df and tfidf_matrix set), no
\* request changes the engine's table, matrices or vectorizer, replaces the
\* handle (initialize_model is not entered), or writes the model or data file.
C7_ReadOnlyWhenReady ==
    [][(pc = "serving" /\ Ready(recommender))
          => UNCHANGED <<recommender, modelFile, dataFile, initEntered>>]_vars

\* a request answered with results by a ready engine
C7_Witness ==
    /\ pc = "serving"
    /\ Ready(recommender)
    /\ response.op = "recommend"
    /\ response.status = 200
    /\ response.body # <<>>

\* the query under study shares no term with the frozen vocabulary
NoOverlap ==
    Range(Tokenize(request.query)) \cap recommender[1].tfidf_vectorizer[1].vocabulary = {}

\* C8: recommend_by_text returns only items whose similarity to the query is
\* strictly above 0; a query that shares no vocabulary term with the catalog
\* gets the empty list and no exception.
C8_OnlyPositive ==
    /\ TextReturned =>
          \A k \in DOMAIN response.value :
             /\ response.value[k].similarity_score > 0
             /\ Sims[response.value[k].model] > 0
    /\ (response.op = "recommend_by_text" /\ recommender[1].tfidf_matrix # None /\ NoOverlap)
          => (response.outcome = "return" /\ response.value = <<>>)

\* a query without overlap on a fitted engine with a catalog
C8_Witness ==
    /\ response.op = "recommend_by_text"
    /\ recommender[1].tfidf_matrix # None
    /\ recommender[1].df[1] # <<>>
    /\ NoOverlap
    /\ response.value = <<>>

\* engines a and b answer every text query and every specs query alike
SameAnswers(a, b) ==
    /\ \A q \in TextQueries, k \in TopKs :
          /\ TextOrders(a, q) = TextOrders(b, q)
          /\ \A o \in TextOrders(b, q) :
                recommend_by_text(a, q, k, o) = recommend_by_text(b, q, k, o)
    /\ \A bu \in Budgets, u \in UseCases, k \in TopKs :
          /\ SpecsOrders(a, bu, u) = SpecsOrders(b, bu, u)
          /\ \A o \in SpecsOrders(b, bu, u) :
                recommend_by_specs(a, bu, u, k, o) = recommend_by_specs(b, bu, u, k, o)

\* load_model has read the snapshot that save_model writes for the fitted engine
Restored ==
    /\ response.op = "load_model"
    /\ response.outcome = "return"
    /\ recommender[1].tfidf_matrix # None
    /\ modelFile = save_model(recommender[1])

Handlers == {"recommend", "search", "filter", "stats"}

\* C10 as stated: in every state of the API process the global handle is None
\* or an engine with both df and tfidf_matrix set, and so is every engine
\* get_recommender returns to a handler.
C10_HandleNoneOrReady ==
    /\ recommender = None \/ Ready(recommender)
    /\ response.op \in Handlers => (response.got = None \/ Ready(response.got))

\* C10 amended: the global handle can stay partially initialized after an
\* initialize_model call that raised; every engine initialize_model returns is
\* None or has both df and tfidf_matrix set; every engine get_recommender
\* returns to a handler is None or has its tfidf_matrix set (its df can be
\* missing).
C10_ReturnedEngines ==
    /\ (response.op \in {"import", "main"} /\ response.outcome = "return")
          => (response.got = None \/ Ready(response.got))
    /\ response.op \in Handlers
          => (response.got = None \/ response.got[1].tfidf_matrix # None)

\* a handler was given an engine that has an index and no catalog
C10_Witness ==
    /\ response.op = "stats"
    /\ response.got # None
    /\ response.got[1].df = None
    /\ response.got[1].tfidf_matrix # None

==========================================================================
